---- MODULE Spec2Model ----
(***************************************************************************)
(* A model of the mail walker of package i18nmail (src/i18nmail/walk.go):  *)
(* the global sequence counter, MailPart construction (Spawn, WithEntity,  *)
(* NewMailPart), and the walk itself (WalkMessage, Walk, WalkMultipart)    *)
(* driven by the entity-tree traversal of go-message (Entity.Walk), which  *)
(* reveals the message one entity at a time.  Three of its functions are   *)
(* also modelled on their own, each under its own specification: safeFn,   *)
(* the body handling of WithEntity with GetBody (the hash behind the       *)
(* TeeReader, the section readers), and headersAsMap.                      *)
(***************************************************************************)
EXTENDS Integers, Sequences, FiniteSets, TLC

VARIABLES
    sequence,     \* the global uint64 counter, as <<high bits, low 31 bits>>
    parts,        \* arena of every MailPart constructed, in construction order
    ents,         \* per walker: the entities of its message, in parse order
    pc,           \* per walker: position in the code
    dontDescend,  \* per walker: the dontDescend argument
    rootPart,     \* per walker: the `part` argument of Walk (arena index)
    path,         \* per walker: Entity.Walk's path (one entry per open multipart reader)
    cur,          \* per walker: the entity handed to the walk function (index in ents)
    fwdErr,       \* per walker: the error Entity.Walk forwards with that entity
    child,        \* per walker: the child part built by the walk function (arena index)
    fn,           \* per walker: the derived file name of that child
    calls,        \* per walker: history of the todo invocations
    result,       \* per walker: what the entry point returned
    limits,       \* the messages the parser reads: how many entities, how deep, how wide
    rawName,      \* safeFn on its own: the file name it is given
    safeName,     \* safeFn on its own: what it returns
    src,          \* WithEntity's body handling on its own: the entity as it arrives
    hsh,          \* the running SHA-512/224 state behind the TeeReader
    readers,      \* the io.ReaderAt / io.SectionReader values that exist
    views,        \* the readers handed out by GetBody, with what was read from each
    stamped,      \* the X-HashOfFullMessage field after WithEntity
    fields,       \* headersAsMap on its own: the header fields, in message order
    mimeHeader,   \* headersAsMap on its own: the map it returns
    procs,        \* the process table (/proc): the parent of every process
    self,         \* the focus daemon's own pid (os.Getpid())
    killArgs,     \* kill on its own: its arguments pid, stop, depth
    signals,      \* every signal sent so far (syscall.Kill), in order
    ff,           \* Main: the pid of the target program's window focused last
    timer,        \* Main: the stop timer
    callbacks,    \* the goroutines time.AfterFunc started that have not finished
    loop,         \* Main: position of the event loop, events read so far
    focus,        \* what the focus events processed so far amount to
    ctx,          \* coord.Get: the context it is called with
    gmapsRateLimit, \* the package's rate limiter: its limit and its token
    get,          \* coord.Get: its position and its locals firstErr, data, loc
    wire          \* every limiter Wait and every HTTP attempt so far, with its error

\* The walker's own state.
walkVars == <<sequence, parts, ents, pc, dontDescend, rootPart, path, cur,
              fwdErr, child, fn, calls, result, limits>>
fnVars == <<rawName, safeName>>
bodyVars == <<src, hsh, readers, views, stamped>>
hdrVars == <<fields, mimeHeader>>
\* The state of the functions that are also exercised on their own.
libVars == <<fnVars, bodyVars, hdrVars>>
killVars == <<procs, self, killArgs, signals>>
\* The state of the programs beside the walker.
daemonVars == <<ff, timer, callbacks, loop, focus>>
coordVars == <<ctx, gmapsRateLimit, get, wire>>
toolVars == <<killVars, daemonVars, coordVars>>

vars == <<walkVars, libVars, toolVars>>

(* ------------------------------ bounds --------------------------------- *)

\* Entities parsed during one run, over all walkers.
MaxEntities == 3
\* Longest path (nesting) of an entity the parser yields.
MaxDepth == 2
\* Longest file name given to safeFn on its own.
MaxNameLen == 3
\* Longest entity body drained by WithEntity on its own.
MaxBody == 3
\* Most bytes one Read call delivers.
MaxChunk == 2
\* Most readers GetBody hands out.
MaxViews == 2
\* Most fields of a header given to headersAsMap on its own.
MaxFields == 3
\* Largest pid of the process table; pid 1 is init.
MaxPid == 5
\* Largest depth given to kill on its own.
MaxKillDepth == 2
\* Most events the focus daemon reads from the window manager.
MaxEvents == 3

Walkers == {"a", "b"}

(* ----------------------------- constants ------------------------------- *)

\* uint64(1<<31) - 1: the largest value nextSeqInt returns.
SeqMask == 2147483647

\* "MaxWalkDepth is the maximum depth Walk will descend."
MaxWalkDepth == 32

\* sha512.Size224: the bytes of a SHA-512/224 digest.
Size224 == 28

\* The default of flag stop-depth.
flagStopDepth == 1

\* The depth with which the focus daemon sends CONT.
ContDepth == 999

HashKeyName == "X-HashOfFullMessage"

\* Errors are records: the message of the innermost error, and the wrapping
\* (fmt.Errorf with %w) around it, if any, with the file name it carries.
Err(msg) == [wrap |-> "", fn |-> <<>>, msg |-> msg]
Nil == Err("nil")
\* The entry point has not returned yet.
Pending == Err("pending")
ErrStopWalk == Err("stop the walk")
ErrTodo == Err("todo failed")
ErrContentType == Err("mime: invalid media parameter")
ErrEncoding == Err("unknown encoding")
ErrMultipart == Err("multipart: NextPart")
ErrIO == Err("read failed")
ErrRead == Err("message: read failed")

\* errors.Unwrap down to the innermost error.
Unwrap(e) == Err(e.msg)

TodoResults == {Nil, ErrStopWalk, ErrTodo}

(* ------------------------- the sequence counter ------------------------ *)

\* atomic.AddUint64(&sequence, 1): the new value of the counter.  The counter
\* is kept as <<h, l>>, standing for h * 2^31 + l with 0 <= l <= SeqMask.
nextSeq(s) == IF s[2] = SeqMask THEN <<s[1] + 1, 0>> ELSE <<s[1], s[2] + 1>>

\* int(nextSeq() % uint64(1<<31)): the low 31 bits of the new value.
nextSeqInt(s) == nextSeq(s)[2]

\* Order of two counter values.
RawLess(r1, r2) == r1[1] < r2[1] \/ (r1[1] = r2[1] /\ r1[2] < r2[2])

(* ------------------------------ headers -------------------------------- *)

\* Content-Type header values of the model's entities.
TextPlain == "text/plain"
MultipartBoundary == "multipart/mixed; boundary=b"
MultipartNoBoundary == "multipart/mixed"
BadContentType == "text/plain; ="

ContentTypes == {TextPlain, MultipartBoundary, MultipartNoBoundary, BadContentType}

\* message.Header.ContentType(): media type, parameters and parse error.
ContentType(h) ==
    CASE h = TextPlain -> [ct |-> "text/plain", boundary |-> "", err |-> Nil]
      [] h = MultipartBoundary -> [ct |-> "multipart/mixed", boundary |-> "b", err |-> Nil]
      [] h = MultipartNoBoundary -> [ct |-> "multipart/mixed", boundary |-> "", err |-> Nil]
      [] OTHER -> [ct |-> "", boundary |-> "", err |-> ErrContentType]

\* strings.HasPrefix(ct, "multipart/")
IsMultipart(ct) == ct \in {"multipart/mixed"}

(* ------------------------- the parser's input -------------------------- *)

\* Messages of at most MaxEntities entities nested at most MaxDepth deep,
\* of every kind of entity.
AnyMessage ==
    [entities |-> MaxEntities, depth |-> MaxDepth, width |-> MaxEntities, lean |-> FALSE]

\* Messages that are one chain of multipart containers, each holding a single
\* part, nested one level deeper than MaxWalkDepth.
DeepMessage ==
    [entities |-> MaxWalkDepth + 2, depth |-> MaxWalkDepth + 1, width |-> 1, lean |-> TRUE]

\* No X-HashOfFullMessage field in a header.  Field values are sequences of
\* one-character strings; this one is no such sequence.
NoHash == <<"absent">>
\* A digest stamped on the message before it reached this process.
UpstreamHash == <<"u", "p">>

(* ------------------------------ the digest ----------------------------- *)

\* sha512.New512_224(): the state of a hash that has absorbed nothing.  The
\* state is Size224 bytes; the mixing below stands in for the SHA-512
\* compression function, of which only this is kept: the state after a
\* stream of bytes is a function of those bytes, absorbed one by one.
New512_224 == [i \in 1..Size224 |-> i]

\* hash.Hash.Write(p)
RECURSIVE Write(_, _)
Write(h, p) ==
    IF p = <<>> THEN h
    ELSE Write([i \in 1..Size224 |-> ((h[i] * 3) + Head(p) + i) % 256], Tail(p))

\* hash.Hash.Sum(a[:0]): the Size224 bytes of the digest.
Sum(h) == [i \in 1..Size224 |-> h[i]]

\* The alphabet of base64.URLEncoding.
URLAlphabet ==
    <<"A", "B", "C", "D", "E", "F", "G", "H", "I", "J", "K", "L", "M",
      "N", "O", "P", "Q", "R", "S", "T", "U", "V", "W", "X", "Y", "Z",
      "a", "b", "c", "d", "e", "f", "g", "h", "i", "j", "k", "l", "m",
      "n", "o", "p", "q", "r", "s", "t", "u", "v", "w", "x", "y", "z",
      "0", "1", "2", "3", "4", "5", "6", "7", "8", "9", "-", "_">>

\* Mutant of Pad: base64.RawURLEncoding, which does not pad.
NoPad(n) == <<>>

\* The padding base64.URLEncoding (StdPadding) puts after a last group of n bytes.
Pad(n) == IF n = 1 THEN <<"=", "=">> ELSE <<"=">>

\* base64.URLEncoding.EncodeToString
RECURSIVE EncodeToString(_)
EncodeToString(b) ==
    IF Len(b) = 0 THEN <<>>
    ELSE IF Len(b) = 1
      THEN <<URLAlphabet[(b[1] \div 4) + 1], URLAlphabet[((b[1] % 4) * 16) + 1]>> \o Pad(1)
    ELSE IF Len(b) = 2
      THEN <<URLAlphabet[(b[1] \div 4) + 1],
             URLAlphabet[((b[1] % 4) * 16) + (b[2] \div 16) + 1],
             URLAlphabet[((b[2] % 16) * 4) + 1]>> \o Pad(2)
    ELSE <<URLAlphabet[(b[1] \div 4) + 1],
           URLAlphabet[((b[1] % 4) * 16) + (b[2] \div 16) + 1],
           URLAlphabet[((b[2] % 16) * 4) + (b[3] \div 64) + 1],
           URLAlphabet[(b[3] % 64) + 1]>> \o EncodeToString(SubSeq(b, 4, Len(b)))

\* HashBytes: h := sha512.New512_224(); h.Write(data); base64 of h.Sum.
HashBytes(data) == EncodeToString(Sum(Write(New512_224, data)))

(* ----------------------------- file names ------------------------------ *)

\* File names are sequences of one-character strings.
NoName == <<>>

Digit(d) == CASE d = 0 -> "0" [] d = 1 -> "1" [] d = 2 -> "2" [] d = 3 -> "3"
              [] d = 4 -> "4" [] d = 5 -> "5" [] d = 6 -> "6" [] d = 7 -> "7"
              [] d = 8 -> "8" [] OTHER -> "9"

\* fmt's %d of a non-negative int.
RECURSIVE Itoa(_)
Itoa(n) == IF n < 10 THEN <<Digit(n)>> ELSE Itoa(n \div 10) \o <<Digit(n % 10)>>

\* mime.ExtensionsByType: the extensions known for a media type.
ExtensionsByType(ct) == IF ct = "text/plain" THEN << <<".", "t", "x", "t">> >> ELSE << >>

\* strings.Replace(s, old, new, -1) for a one-character old.
RECURSIVE ReplaceAll(_, _, _)
ReplaceAll(s, old, new) ==
    IF s = <<>> THEN <<>>
    ELSE (IF Head(s) = old THEN new ELSE <<Head(s)>>) \o ReplaceAll(Tail(s), old, new)

Unreserved == {"a", "b", "c", "r", "t", "x", "d", "P",
               "0", "1", "2", "3", "4", "5", "6", "7", "8", "9", "-", "_", ".", "~"}

\* url.QueryEscape of one character.
EscapeChar(c) ==
    CASE c \in Unreserved -> <<c>>
      [] c = " " -> <<"+">>
      [] c = "/" -> <<"%", "2", "F">>
      [] c = "\\" -> <<"%", "5", "C">>
      [] c = "%" -> <<"%", "2", "5">>
      [] c = "!" -> <<"%", "2", "1">>
      [] OTHER -> <<"%", "3", "F">>

\* url.QueryEscape
RECURSIVE QueryEscape(_)
QueryEscape(s) == IF s = <<>> THEN <<>> ELSE EscapeChar(Head(s)) \o QueryEscape(Tail(s))

\* Mutant of safeFn: the percent signs of the escapes are left in.
safeFnUnmasked(name, maskPercent) ==
    QueryEscape(ReplaceAll(ReplaceAll(name, "/", <<"-">>), "\\", <<"-">>))

safeFn(name, maskPercent) ==
    LET esc == QueryEscape(ReplaceAll(ReplaceAll(name, "/", <<"-">>), "\\", <<"-">>))
    IN IF maskPercent THEN ReplaceAll(esc, "%", <<"!", "P", "!">>) ELSE esc

(* ------------------------- entities and parts -------------------------- *)

\* A *message.Entity as the parser hands it over: its path in the MIME tree,
\* its header fields (Content-Type value, X-HashOfFullMessage value, declared
\* Content-Disposition file name), and its Body stream (content and the
\* number of bytes already read from it).
Entity(p, ctHeader, hash, disp, body) ==
    [path |-> p, ctHeader |-> ctHeader, hash |-> hash, disp |-> disp,
     body |-> body, pos |-> 0]

\* Whether two walks run at once (a walker that never runs is "off").
Concurrent == \A w \in Walkers : pc[w] # "off"

\* The entities a parser may yield at path p: a plain-text part with a body,
\* an attachment with a declared file name and a digest stamped upstream, a
\* multipart container, a multipart entity without boundary, and an entity
\* whose Content-Type does not parse.  Two concurrent walks read messages
\* made of the first and the third only, and so are the deep messages.
EntitiesAt(p) ==
    { Entity(p, TextPlain, NoHash, NoName, <<104, 105>>),
      Entity(p, MultipartBoundary, NoHash, NoName, <<>>) }
    \cup
    IF Concurrent \/ limits.lean THEN {}
    ELSE { Entity(p, TextPlain, UpstreamHash, <<"r", ".", "t", "x", "t">>, <<>>),
           Entity(p, MultipartNoBoundary, NoHash, NoName, <<>>),
           Entity(p, BadContentType, NoHash, NoName, <<>>) }

\* message.Entity.Header.Has(HashKeyName)
HasHash(e) == e.hash # NoHash

\* headersAsMap: the part's copy of the entity's header fields.
headersAsMap(e) == [ct |-> e.ctHeader, hash |-> e.hash, disp |-> e.disp, xfn |-> NoName]

\* A nil textproto.MIMEHeader.
ZeroHeader == [ct |-> "", hash |-> NoHash, disp |-> NoName, xfn |-> NoName]

\* var mp MailPart: the zero value.  entity is <<walker, index in ents>> or <<>>;
\* raw is the counter value that gave the part its Seq (<<>> when none did).
ZeroPart ==
    [entity |-> <<>>, body |-> <<>>, Header |-> ZeroHeader, boundary |-> "", Parent |-> 0,
     ContentType |-> "", Level |-> 0, Seq |-> 0, raw |-> <<>>]

\* Mutant of Spawn: the child stays at its parent's level.
SpawnSameLevel(parent, s) ==
    [ZeroPart EXCEPT !.Parent = parent, !.Level = parts[parent].Level,
                     !.Seq = nextSeqInt(s), !.raw = nextSeq(s)]

\* MailPart.Spawn of the part at arena index parent, the counter being s.
Spawn(parent, s) ==
    [ZeroPart EXCEPT !.Parent = parent, !.Level = parts[parent].Level + 1,
                     !.Seq = nextSeqInt(s), !.raw = nextSeq(s)]

\* The bytes still unread on the entity's Body stream.
Remaining(e) == SubSeq(e.body, e.pos + 1, Len(e.body))

\* Mutant of StampHash: the digest is set whether or not the field is there.
StampHashAlways(e, digest) == digest

\* The header field WithEntity leaves in X-HashOfFullMessage.
StampHash(e, digest) == IF ~HasHash(e) THEN digest ELSE e.hash

\* Mutant of ParseError: the error of hdr.ContentType() is dropped.
ParseErrorIgnored(e) == Nil

\* The error WithEntity gets from hdr.ContentType().
ParseError(e) == ContentType(e.ctHeader).err

\* MailPart.WithEntity: the part, the entity as it leaves it, and the error;
\* ref names the entity, ioOK says whether draining the body succeeds.
WithEntity(mp, e, ref, ioOK) ==
    LET parsed == ContentType(e.ctHeader)
        ct == IF parsed.ct = "" THEN "message/rfc822" ELSE parsed.ct
        read == Remaining(e)
        e2 == [e EXCEPT !.body = read, !.pos = 0, !.hash = StampHash(e, HashBytes(read))]
    IN IF ParseError(e) # Nil
         THEN [mp |-> [mp EXCEPT !.entity = ref], ent |-> e, err |-> ParseError(e)]
       ELSE IF ~ioOK
         THEN [mp |-> [mp EXCEPT !.entity = ref, !.ContentType = ct,
                                 !.boundary = parsed.boundary],
               ent |-> [e EXCEPT !.pos = Len(e.body)], err |-> [ErrIO EXCEPT !.wrap = "part"]]
       ELSE [mp |-> [mp EXCEPT !.entity = ref, !.ContentType = ct,
                               !.boundary = parsed.boundary, !.body = read,
                               !.Header = headersAsMap(e2)],
             ent |-> e2, err |-> Nil]

\* MailPart.FileName: the filename parameter of Content-Disposition.
FileName(e) == e.disp

\* Mutant of DerivedName: the declared file name is not used.
DerivedNameGenerated(mp, e) ==
    Itoa(mp.Level) \o <<".">> \o Itoa(mp.Seq)
    \o Append(ExtensionsByType(mp.ContentType), <<".", "d", "a", "t">>)[1]

\* The file name Walk derives for a child part.
DerivedName(mp, e) ==
    IF FileName(e) # NoName THEN FileName(e)
    ELSE Itoa(mp.Level) \o <<".">> \o Itoa(mp.Seq)
         \o Append(ExtensionsByType(mp.ContentType), <<".", "d", "a", "t">>)[1]

\* fmt.Errorf("todo(%q): %w", fn, err)
WrapTodo(name, err) == [wrap |-> "todo", fn |-> name, msg |-> err.msg]

\* Entities parsed so far, over all walkers.
RECURSIVE Total(_)
Total(S) == IF S = {} THEN 0
            ELSE LET w == CHOOSE x \in S : TRUE IN Len(ents[w]) + Total(S \ {w})

Budget == Total(Walkers) < limits.entities

(* ------------------------------- Init ---------------------------------- *)

\* A function that has not returned yet, and one that returned out.
NotCalled == [called |-> FALSE, out |-> <<>>]
Returns(out) == [called |-> TRUE, out |-> out]

\* No signal is ever sent.
KillIdle == procs = <<>> /\ self = 0 /\ killArgs = <<>> /\ signals = <<>>

\* The focus daemon does not run.
DaemonIdle ==
    /\ ff = 0 /\ timer = "nil" /\ callbacks = <<>>
    /\ loop = [pc |-> "off", n |-> 0]
    /\ focus = [seen |-> FALSE, quiet |-> FALSE]

\* coord.Get is not called.
CoordIdle == ctx = <<>> /\ gmapsRateLimit = <<>> /\ get = <<>> /\ wire = <<>>

\* None of the programs beside the walker runs.
ToolsIdle == KillIdle /\ DaemonIdle /\ CoordIdle

\* No function is being exercised on its own.
LibIdle ==
    /\ rawName = <<>> /\ safeName = NotCalled
    /\ src = <<>> /\ hsh = <<>> /\ readers = <<>> /\ views = <<>> /\ stamped = NoHash
    /\ fields = <<>> /\ mimeHeader = NotCalled

\* A part that an earlier walk left behind: the first one the process issued.
OldPart == [ZeroPart EXCEPT !.Level = 1, !.Seq = 1, !.raw = <<0, 1>>]

\* What every initial state shares; run is the set of walkers that run.
InitWith(run, input) ==
    /\ \/ sequence = <<0, 0>> /\ parts = <<>>
       \/ sequence = <<0, SeqMask>> /\ parts = <<OldPart>>
    /\ ents = [w \in Walkers |-> <<>>]
    /\ pc = [w \in Walkers |-> IF w \in run THEN "idle" ELSE "off"]
    /\ dontDescend = [w \in Walkers |-> FALSE]
    /\ rootPart = [w \in Walkers |-> 0]
    /\ path = [w \in Walkers |-> <<>>]
    /\ cur = [w \in Walkers |-> 0]
    /\ fwdErr = [w \in Walkers |-> Nil]
    /\ child = [w \in Walkers |-> 0]
    /\ fn = [w \in Walkers |-> NoName]
    /\ calls = [w \in Walkers |-> <<>>]
    /\ result = [w \in Walkers |-> Pending]
    /\ limits = input
    /\ LibIdle
    /\ ToolsIdle

\* One walk, in a fresh process or in one that has issued 2^31 - 1 sequence
\* numbers and still holds the first part.
Init == InitWith({"a"}, AnyMessage)

\* Two walks over different messages at once.
InitConc == InitWith(Walkers, AnyMessage)

\* One walk over a deeply nested message.
InitDeep == InitWith({"a"}, DeepMessage)

(* ------------------------------ actions -------------------------------- *)

\* The walker's entry point returns r.
Return(w, r) ==
    /\ result' = [result EXCEPT ![w] = r]
    /\ pc' = [pc EXCEPT ![w] = "done"]

\* Walk's call of part.entity.Walk: the walk function is first handed the
\* root entity, with a nil path and no error.
EnterWalk(w, dd) ==
    /\ dontDescend' = [dontDescend EXCEPT ![w] = dd]
    /\ cur' = [cur EXCEPT ![w] = 1]
    /\ fwdErr' = [fwdErr EXCEPT ![w] = Nil]
    /\ path' = [path EXCEPT ![w] = <<>>]
    /\ pc' = [pc EXCEPT ![w] = "visit"]

\* NewMailPart(r): message.Read, then WithEntity on a zero MailPart.
NewMailPart(w) ==
    /\ pc[w] = "idle"
    /\ Budget
    /\ \E readOK \in BOOLEAN, e \in EntitiesAt(<<>>), ioOK \in BOOLEAN :
         IF ~readOK
         THEN /\ Return(w, ErrRead)
              /\ UNCHANGED <<parts, ents, rootPart>>
         ELSE LET r == WithEntity(ZeroPart, e, <<w, 1>>, ioOK) IN
              /\ ents' = [ents EXCEPT ![w] = <<r.ent>>]
              /\ parts' = Append(parts, r.mp)
              /\ IF r.err # Nil
                 THEN Return(w, r.err) /\ UNCHANGED rootPart
                 ELSE /\ rootPart' = [rootPart EXCEPT ![w] = Len(parts) + 1]
                      /\ pc' = [pc EXCEPT ![w] = "ready"]
                      /\ UNCHANGED result
    /\ UNCHANGED <<sequence, dontDescend, path, cur, fwdErr, child, fn, calls>>
    /\ UNCHANGED <<limits, libVars, toolVars>>

\* Walk(part, todo, dontDescend) on the part NewMailPart returned.
Walk(w) ==
    /\ pc[w] = "ready"
    /\ \E dd \in BOOLEAN : EnterWalk(w, dd)
    /\ UNCHANGED <<sequence, parts, ents, rootPart, child, fn, calls, result>>
    /\ UNCHANGED <<limits, libVars, toolVars>>

\* WalkMultipart(mp, todo, dontDescend): calls Walk.
WalkMultipart(w) ==
    /\ pc[w] = "ready"
    /\ \E dd \in BOOLEAN : EnterWalk(w, dd)
    /\ UNCHANGED <<sequence, parts, ents, rootPart, child, fn, calls, result>>
    /\ UNCHANGED <<limits, libVars, toolVars>>

\* The parts a caller may pass as parent: those earlier walks left behind.
Parents == {i \in DOMAIN parts : parts[i].entity = <<>>}

\* WalkMessage(msg, todo, dontDescend, parent): parent is an arena index, 0 for nil.
WalkMessage(w) ==
    /\ pc[w] = "idle"
    /\ Budget
    /\ \E parent \in {0} \cup Parents, e \in EntitiesAt(<<>>),
          ioOK \in BOOLEAN, dd \in BOOLEAN :
         LET c == IF parent # 0 THEN Spawn(parent, sequence)
                  ELSE [ZeroPart EXCEPT !.Level = 1, !.Seq = nextSeqInt(sequence),
                                        !.raw = nextSeq(sequence)]
             r == WithEntity(c, e, <<w, 1>>, ioOK)
         IN /\ sequence' = nextSeq(sequence)
            /\ ents' = [ents EXCEPT ![w] = <<r.ent>>]
            /\ parts' = Append(parts, r.mp)
            /\ IF r.err # Nil
               THEN /\ Return(w, r.err)
                    /\ UNCHANGED <<rootPart, dontDescend, cur, fwdErr, path>>
               ELSE /\ rootPart' = [rootPart EXCEPT ![w] = Len(parts) + 1]
                    /\ EnterWalk(w, dd)
                    /\ UNCHANGED result
    /\ UNCHANGED <<child, fn, calls>>
    /\ UNCHANGED <<limits, libVars, toolVars>>

\* Entity.Walk after the walk function returned nil for the current entity:
\* a multipart entity's reader is opened (part.MultipartReader() != nil) and
\* the next part is asked for.
Descend(w) ==
    /\ path' = [path EXCEPT ![w] =
                  IF IsMultipart(ContentType(ents[w][cur[w]].ctHeader).ct)
                  THEN Append(@, -1) ELSE @]
    /\ pc' = [pc EXCEPT ![w] = "next"]

\* Mutant of IsSkipped: the path test is inverted (path == nil).
IsSkippedAtRoot(p, e) ==
    /\ p = <<>>
    /\ IsMultipart(ContentType(e.ctHeader).ct)
    /\ ContentType(e.ctHeader).boundary # ""

\* Mutant of IsSkipped: the boundary parameter is not looked at.
IsSkippedAnyMultipart(p, e) ==
    /\ p # <<>>
    /\ IsMultipart(ContentType(e.ctHeader).ct)

\* The skip test of the walk function: a non-root multipart entity with a boundary.
IsSkipped(p, e) ==
    /\ p # <<>>
    /\ IsMultipart(ContentType(e.ctHeader).ct)
    /\ ContentType(e.ctHeader).boundary # ""

\* The walk function Walk hands to Entity.Walk, up to the first call of todo.
WalkFn(w) ==
    /\ pc[w] = "visit"
    /\ LET e == ents[w][cur[w]] IN
       IF fwdErr[w] # Nil
       THEN /\ Return(w, fwdErr[w])
            /\ UNCHANGED <<sequence, parts, ents, path, child, fn>>
       ELSE IF IsSkipped(path[w], e)
       THEN /\ Descend(w)
            /\ UNCHANGED <<sequence, parts, ents, child, fn, result>>
       ELSE \E ioOK \in BOOLEAN :
            LET r == WithEntity(Spawn(rootPart[w], sequence), e, <<w, cur[w]>>, ioOK)
                name == DerivedName(r.mp, r.ent)
            IN /\ sequence' = nextSeq(sequence)
               /\ ents' = [ents EXCEPT ![w][cur[w]] = r.ent]
               /\ IF r.err # Nil
                  THEN /\ parts' = Append(parts, r.mp)
                       /\ Return(w, r.err)
                       /\ UNCHANGED <<child, fn>>
                  ELSE /\ parts' = Append(parts,
                                      [r.mp EXCEPT !.Header.xfn = safeFn(name, TRUE)])
                       /\ child' = [child EXCEPT ![w] = Len(parts) + 1]
                       /\ fn' = [fn EXCEPT ![w] = name]
                       /\ pc' = [pc EXCEPT ![w] = "todo1"]
                       /\ UNCHANGED result
               /\ UNCHANGED path
    /\ UNCHANGED <<dontDescend, rootPart, cur, fwdErr, calls>>
    /\ UNCHANGED <<limits, libVars, toolVars>>

\* One invocation of todo(child) returning r, as the history records it.
Invocation(w, r) == [part |-> child[w], ent |-> cur[w], ret |-> r]

\* `if err = todo(child); err != nil { return fmt.Errorf("todo(%q): %w", fn, err) }`
Todo1(w) ==
    /\ pc[w] = "todo1"
    /\ \E r \in TodoResults :
         /\ calls' = [calls EXCEPT ![w] = Append(@, Invocation(w, r))]
         /\ IF r # Nil
            THEN Return(w, WrapTodo(fn[w], r))
            ELSE pc' = [pc EXCEPT ![w] = "todo2"] /\ UNCHANGED result
    /\ UNCHANGED <<sequence, parts, ents, dontDescend, rootPart, path, cur, fwdErr,
                   child, fn>>
    /\ UNCHANGED <<limits, libVars, toolVars>>

\* `return todo(child)`
Todo2(w) ==
    /\ pc[w] = "todo2"
    /\ \E r \in TodoResults :
         /\ calls' = [calls EXCEPT ![w] = Append(@, Invocation(w, r))]
         /\ IF r # Nil
            THEN Return(w, r) /\ UNCHANGED path
            ELSE Descend(w) /\ UNCHANGED result
    /\ UNCHANGED <<sequence, parts, ents, dontDescend, rootPart, cur, fwdErr, child, fn>>
    /\ UNCHANGED <<limits, libVars, toolVars>>

\* Entity.Walk asking for the next part: no reader is left (the walk returns
\* nil), the innermost reader is at its end (it is closed), it fails, or it
\* yields an entity, possibly with an unknown-encoding error to forward.
NextPart(w) ==
    /\ pc[w] = "next"
    /\ IF path[w] = <<>>
       THEN Return(w, Nil) /\ UNCHANGED <<ents, path, cur, fwdErr>>
       ELSE \/ /\ path' = [path EXCEPT ![w] = SubSeq(@, 1, Len(@) - 1)]
               /\ UNCHANGED <<ents, cur, fwdErr, pc, result>>
            \/ /\ Return(w, ErrMultipart)
               /\ UNCHANGED <<ents, path, cur, fwdErr>>
            \/ /\ Budget
               /\ Len(path[w]) <= limits.depth
               /\ path[w][Len(path[w])] + 1 < limits.width
               /\ LET p == [path[w] EXCEPT ![Len(path[w])] = @ + 1] IN
                  \E e \in EntitiesAt(p), fe \in {Nil, ErrEncoding} :
                    /\ path' = [path EXCEPT ![w] = p]
                    /\ ents' = [ents EXCEPT ![w] = Append(@, e)]
                    /\ cur' = [cur EXCEPT ![w] = Len(ents[w]) + 1]
                    /\ fwdErr' = [fwdErr EXCEPT ![w] = fe]
                    /\ pc' = [pc EXCEPT ![w] = "visit"]
                    /\ UNCHANGED result
    /\ UNCHANGED <<sequence, parts, dontDescend, rootPart, child, fn, calls>>
    /\ UNCHANGED <<limits, libVars, toolVars>>

Next ==
    \E w \in Walkers :
        \/ NewMailPart(w)
        \/ Walk(w)
        \/ WalkMultipart(w)
        \/ WalkMessage(w)
        \/ WalkFn(w)
        \/ Todo1(w)
        \/ Todo2(w)
        \/ NextPart(w)

Spec == Init /\ [][Next]_vars

SpecConc == InitConc /\ [][Next]_vars

SpecDeep == InitDeep /\ [][Next]_vars

(* --------------------------- safeFn on its own ------------------------- *)

\* No walk runs.
NoWalk ==
    /\ sequence = <<0, 0>> /\ parts = <<>>
    /\ ents = [w \in Walkers |-> <<>>]
    /\ pc = [w \in Walkers |-> "off"]
    /\ dontDescend = [w \in Walkers |-> FALSE]
    /\ rootPart = [w \in Walkers |-> 0]
    /\ path = [w \in Walkers |-> <<>>]
    /\ cur = [w \in Walkers |-> 0]
    /\ fwdErr = [w \in Walkers |-> Nil]
    /\ child = [w \in Walkers |-> 0]
    /\ fn = [w \in Walkers |-> NoName]
    /\ calls = [w \in Walkers |-> <<>>]
    /\ result = [w \in Walkers |-> Pending]
    /\ limits = AnyMessage

\* The characters of the names: a letter, a dot, the two path separators,
\* the percent sign, a space, and two characters url.QueryEscape escapes.
NameChars == {"a", ".", "/", "\\", "%", " ", "!", "?"}

\* The names of at most n characters.
Names(n) == UNION {[1..k -> NameChars] : k \in 0..n}

InitSafeFn ==
    /\ NoWalk
    /\ ToolsIdle
    /\ rawName \in Names(MaxNameLen)
    /\ safeName = NotCalled
    /\ src = <<>> /\ hsh = <<>> /\ readers = <<>> /\ views = <<>> /\ stamped = NoHash
    /\ fields = <<>> /\ mimeHeader = NotCalled

\* safeFn(fn, true), as Walk calls it.
CallSafeFn ==
    /\ ~safeName.called
    /\ safeName' = Returns(safeFn(rawName, TRUE))
    /\ UNCHANGED <<walkVars, toolVars, rawName, bodyVars, hdrVars>>

SpecSafeFn == InitSafeFn /\ [][CallSafeFn]_vars

(* ------------------- WithEntity's body handling on its own ------------- *)

Min(a, b) == IF a < b THEN a ELSE b

\* The byte values of the bodies.
Bytes == {104, 105}

\* The bodies of at most n bytes.
Bodies(n) == UNION {[1..k -> Bytes] : k \in 0..n}

\* The storage MakeSectionReader fills (memory, or a mapped temporary file):
\* an io.ReaderAt over data.  Readers are records; r is the index of the
\* reader underneath, 0 for storage.
Storage(data) == [r |-> 0, base |-> 0, off |-> 0, limit |-> Len(data), data |-> data]

\* io.NewSectionReader(r, off, n)
NewSectionReader(r, off, n) ==
    [r |-> r, base |-> off, off |-> off, limit |-> off + n, data |-> <<>>]

\* (*io.SectionReader).Size()
Size(rd) == rd.limit - rd.base

\* ReadAt(p[:n], at) on reader i of rs: the bytes delivered.  It moves no cursor.
RECURSIVE ReadAt(_, _, _, _)
ReadAt(rs, i, at, n) ==
    IF rs[i].r = 0
    THEN SubSeq(rs[i].data, at + 1, Min(at + n, Len(rs[i].data)))
    ELSE LET a == at + rs[i].base
         IN IF a >= rs[i].limit THEN <<>>
            ELSE ReadAt(rs, rs[i].r, a, Min(n, rs[i].limit - a))

\* (*io.SectionReader).Read(p[:n]) on reader i of rs: the bytes delivered.
Read(rs, i, n) ==
    IF rs[i].off >= rs[i].limit THEN <<>>
    ELSE ReadAt(rs, rs[i].r, rs[i].off, Min(n, rs[i].limit - rs[i].off))

\* Mutant of Tee: only the first byte of what was read reaches the hash.
TeeFirstByte(h, chunk) == Write(h, <<Head(chunk)>>)

\* io.TeeReader(mp.entity.Body, hsh): what is read is written to the hash.
Tee(h, chunk) == Write(h, chunk)

\* Mutant of GetBody: mp.body itself is handed out.
GetBodyShared(rs) == [readers |-> rs, ref |-> 2]

\* MailPart.GetBody: io.NewSectionReader(mp.body, 0, mp.body.Size()); mp.body
\* is reader 2.  The readers that exist afterwards, and the one returned.
GetBody(rs) ==
    [readers |-> Append(rs, NewSectionReader(2, 0, Size(rs[2]))), ref |-> Len(rs) + 1]

\* An entity arrives with a body of which start bytes were read already,
\* with or without an X-HashOfFullMessage field; hsh is fresh and the
\* storage of MakeSectionReader is empty.
InitBody ==
    /\ NoWalk
    /\ ToolsIdle
    /\ rawName = <<>> /\ safeName = NotCalled
    /\ fields = <<>> /\ mimeHeader = NotCalled
    /\ \E b \in Bodies(MaxBody), h \in {NoHash, UpstreamHash} : \E k \in 0..Len(b) :
         /\ src = [body |-> b, start |-> k, pos |-> k, hash |-> h, state |-> "draining"]
         /\ stamped = h
    /\ hsh = New512_224
    /\ readers = <<Storage(<<>>)>>
    /\ views = <<>>

\* MakeSectionReader reads once more from the TeeReader and gets bytes.
TeeRead ==
    /\ src.state = "draining"
    /\ src.pos < Len(src.body)
    /\ \E n \in 1..MaxChunk :
         LET chunk == SubSeq(src.body, src.pos + 1, Min(src.pos + n, Len(src.body)))
         IN /\ src' = [src EXCEPT !.pos = @ + Len(chunk)]
            /\ hsh' = Tee(hsh, chunk)
            /\ readers' = <<Storage(readers[1].data \o chunk)>>
    /\ UNCHANGED <<walkVars, toolVars, fnVars, hdrVars, views, stamped>>

\* The read fails: WithEntity returns the error (walk.go:172-174).
DrainFails ==
    /\ src.state = "draining"
    /\ src' = [src EXCEPT !.state = "failed"]
    /\ UNCHANGED <<walkVars, toolVars, fnVars, hdrVars, hsh, readers, views, stamped>>

\* The read meets the end of the body: MakeSectionReader returns body
\* (reader 2), entity.Body becomes a section reader on it (reader 3), and
\* the digest is set if the field is absent.
Drained ==
    /\ src.state = "draining"
    /\ src.pos = Len(src.body)
    /\ src' = [src EXCEPT !.state = "done"]
    /\ LET body == NewSectionReader(1, 0, Size(readers[1]))
       IN readers' = <<readers[1], body, NewSectionReader(2, 0, Size(body))>>
    /\ stamped' = IF stamped = NoHash THEN EncodeToString(Sum(hsh)) ELSE stamped
    /\ UNCHANGED <<walkVars, toolVars, fnVars, hdrVars, hsh, views>>

\* The callback calls GetBody.
CallGetBody ==
    /\ src.state = "done"
    /\ Len(views) < MaxViews
    /\ readers' = GetBody(readers).readers
    /\ views' = Append(views, [reader |-> GetBody(readers).ref, got |-> <<>>])
    /\ UNCHANGED <<walkVars, toolVars, fnVars, hdrVars, src, hsh, stamped>>

\* The callback reads from a reader GetBody gave it.
ReadView ==
    /\ \E v \in DOMAIN views, n \in 1..MaxChunk :
         LET i == views[v].reader
             d == Read(readers, i, n)
         IN /\ d # <<>>
            /\ readers' = [readers EXCEPT ![i].off = @ + Len(d)]
            /\ views' = [views EXCEPT ![v].got = @ \o d]
    /\ UNCHANGED <<walkVars, toolVars, fnVars, hdrVars, src, hsh, stamped>>

\* The callback reads from entity.Body.
ReadEntityBody ==
    /\ src.state = "done"
    /\ \E n \in 1..MaxChunk :
         LET d == Read(readers, 3, n)
         IN /\ d # <<>>
            /\ readers' = [readers EXCEPT ![3].off = @ + Len(d)]
    /\ UNCHANGED <<walkVars, toolVars, fnVars, hdrVars, src, hsh, views, stamped>>

NextBody ==
    \/ TeeRead
    \/ DrainFails
    \/ Drained
    \/ CallGetBody
    \/ ReadView
    \/ ReadEntityBody

SpecBody == InitBody /\ [][NextBody]_vars

(* ------------------------ headersAsMap on its own ---------------------- *)

\* The keys and the values of the header fields, as written in the message:
\* a plain value, an encoded word in UTF-8, and an encoded word in a
\* character set nobody knows.
FieldKeys == {"to", "subject", "Subject"}
FieldValues == {"a", "=?utf-8?q?b?=", "=?x-bad?q?c?="}

\* The headers of at most n fields, in message order.
Headers(n) == UNION {[1..k -> [key : FieldKeys, value : FieldValues]] : k \in 0..n}

\* textproto.CanonicalMIMEHeaderKey
CanonicalMIMEHeaderKey(k) ==
    CASE k = "to" -> "To"
      [] k = "subject" -> "Subject"
      [] OTHER -> k

\* fields.Text(): the decoded value, and whether decoding succeeded.
Text(f) ==
    CASE f.value = "a" -> [s |-> "a", err |-> Nil]
      [] f.value = "=?utf-8?q?b?=" -> [s |-> "b", err |-> Nil]
      [] OTHER -> [s |-> "", err |-> Err("charset: unknown")]

\* fields.Raw(): the field as it stands in the message.
Raw(f) == f.key \o ": " \o f.value \o "\r\n"

\* Mutant of AddField: m[k] = []string{s}.
SetField(m, f) ==
    LET k == CanonicalMIMEHeaderKey(f.key)
        s == IF Text(f).err # Nil THEN Raw(f) ELSE Text(f).s
    IN [x \in DOMAIN m \cup {k} |-> IF x = k THEN <<s>> ELSE m[x]]

\* One turn of the loop of headersAsMap: m[k] = append(m[k], s).
AddField(m, f) ==
    LET k == CanonicalMIMEHeaderKey(f.key)
        s == IF Text(f).err # Nil THEN Raw(f) ELSE Text(f).s
    IN [x \in DOMAIN m \cup {k} |->
          IF x = k THEN (IF k \in DOMAIN m THEN Append(m[k], s) ELSE <<s>>) ELSE m[x]]

\* headersAsMap over the fields fs, starting from the map m: a Go map from
\* key to the list of its values.
RECURSIVE headersAsMapFrom(_, _)
headersAsMapFrom(m, fs) ==
    IF fs = <<>> THEN m ELSE headersAsMapFrom(AddField(m, Head(fs)), Tail(fs))

InitHeader ==
    /\ NoWalk
    /\ ToolsIdle
    /\ rawName = <<>> /\ safeName = NotCalled
    /\ src = <<>> /\ hsh = <<>> /\ readers = <<>> /\ views = <<>> /\ stamped = NoHash
    /\ fields \in Headers(MaxFields)
    /\ mimeHeader = NotCalled

\* headersAsMap(hdr), m being make(map[string][]string, ...).
CallHeadersAsMap ==
    /\ ~mimeHeader.called
    /\ mimeHeader' = Returns(headersAsMapFrom([x \in {} |-> <<>>], fields))
    /\ UNCHANGED <<walkVars, toolVars, fnVars, bodyVars, fields>>

SpecHeader == InitHeader /\ [][CallHeadersAsMap]_vars

(* ------------------- the focus daemon: kill and ckill ------------------ *)

\* The processes beside init.
Pids == 2..MaxPid

\* The process tables: every process has init or an older process as parent.
ProcTables == {t \in [Pids -> 1..MaxPid] : \A q \in Pids : t[q] < q}

SIGSTOP == "STOP"
SIGCONT == "CONT"

\* syscall.Kill(pid, sig), as the history of signals records it.
Kill(pid, sig) == [pid |-> pid, sig |-> sig]

\* getPPid(pid): the PPid line of /proc/<pid>/status.
getPPid(pid) == procs[pid]

\* The numbers of S in the order os.ReadDir gives the entries of /proc.
RECURSIVE ReadDir(_)
ReadDir(S) ==
    IF S = {} THEN <<>>
    ELSE LET m == CHOOSE x \in S : \A y \in S : x <= y IN <<m>> \o ReadDir(S \ {m})

\* The map c that ckill builds when given nil: the children of every
\* process, those of pid 0 and of init left out.
ChildMap ==
    [ppid \in 0..MaxPid |->
        ReadDir({pid \in Pids : getPPid(pid) = ppid /\ getPPid(pid) \notin {0, 1}})]

RECURSIVE ckill(_, _, _, _)
RECURSIVE ckillLoop(_, _, _, _)

\* Mutant of ckillLoop: the children are signalled with the same depth.
ckillLoopSameDepth(kids, sig, c, depth) ==
    IF kids = <<>> THEN <<>>
    ELSE ckill(Head(kids), sig, c, depth)
         \o (IF Head(kids) = 0 \/ Head(kids) = self THEN <<>> ELSE <<Kill(Head(kids), sig)>>)
         \o ckillLoop(Tail(kids), sig, c, depth)

\* The loop of ckill over c[ppid]: the signals it sends.
ckillLoop(kids, sig, c, depth) ==
    IF kids = <<>> THEN <<>>
    ELSE ckill(Head(kids), sig, c, depth - 1)
         \o (IF Head(kids) = 0 \/ Head(kids) = self THEN <<>> ELSE <<Kill(Head(kids), sig)>>)
         \o ckillLoop(Tail(kids), sig, c, depth)

\* ckill(ppid, sig, c, depth): the signals it sends.
ckill(ppid, sig, c, depth) ==
    IF depth = 0 THEN <<Kill(ppid, sig)>> ELSE ckillLoop(c[ppid], sig, c, depth)

\* kill(pid, stop, depth): the signals it sends.
kill(pid, stop, depth) ==
    IF pid = 0 \/ pid = self THEN <<>>
    ELSE IF stop THEN <<Kill(pid, SIGSTOP)>> \o ckill(pid, SIGSTOP, ChildMap, depth)
    ELSE ckill(pid, SIGCONT, ChildMap, depth) \o <<Kill(pid, SIGCONT)>>

\* kill is about to be called, in some process table, by a daemon that is
\* one of the processes.
InitKill ==
    /\ NoWalk
    /\ LibIdle
    /\ procs \in ProcTables
    /\ self \in Pids
    /\ killArgs \in [pid : {0} \cup Pids, stop : BOOLEAN, depth : 0..MaxKillDepth,
                     done : {FALSE}]
    /\ signals = <<>>
    /\ DaemonIdle
    /\ CoordIdle

CallKill ==
    /\ ~killArgs.done
    /\ signals' = signals \o kill(killArgs.pid, killArgs.stop, killArgs.depth)
    /\ killArgs' = [killArgs EXCEPT !.done = TRUE]
    /\ UNCHANGED <<walkVars, libVars, coordVars, daemonVars, procs, self>>

SpecKill == InitKill /\ [][CallKill]_vars

(* ----------------------- the focus daemon: Main ------------------------ *)

\* Main has started: swaymsg runs, ff is 0, there is no timer yet.
InitDaemon ==
    /\ NoWalk
    /\ LibIdle
    /\ CoordIdle
    /\ procs \in ProcTables
    /\ self \in Pids
    /\ killArgs = <<>>
    /\ signals = <<>>
    /\ ff = 0
    /\ timer = "nil"
    /\ callbacks = <<>>
    /\ loop = [pc |-> "read", n |-> 0]
    /\ focus = [seen |-> FALSE, quiet |-> FALSE]

\* The closure stopTimer: timer.Stop() stops a timer that has not fired;
\* for one that has, the channel of an AfterFunc timer has nothing to drain.
stopTimer(t) == IF t = "armed" THEN "stopped" ELSE t

\* Main returns: the stream of events ends, an event does not decode, or
\* the AC file cannot be read.  The deferred function sends CONT.
MainReturns ==
    /\ loop.pc = "read"
    /\ signals' = signals \o (IF ff # 0 THEN kill(ff, FALSE, ContDepth) ELSE <<>>)
    /\ loop' = [loop EXCEPT !.pc = "done"]
    /\ UNCHANGED <<walkVars, libVars, coordVars, procs, self, killArgs, ff, timer, callbacks, focus>>

\* An event that is no focus change: continue.
OtherChange ==
    /\ loop.pc = "read"
    /\ loop.n < MaxEvents
    /\ loop' = [loop EXCEPT !.n = @ + 1]
    /\ UNCHANGED <<walkVars, libVars, coordVars, killVars, ff, timer, callbacks, focus>>

\* A window of the target program gains focus: ff is set and CONT is sent.
FocusTarget ==
    /\ loop.pc = "read"
    /\ loop.n < MaxEvents
    /\ \E pid \in Pids :
         /\ ff' = pid
         /\ signals' = signals \o kill(pid, FALSE, ContDepth)
    /\ loop' = [loop EXCEPT !.pc = "stopTimer", !.n = @ + 1]
    /\ UNCHANGED <<walkVars, libVars, coordVars, procs, self, killArgs, timer, callbacks, focus>>

\* ... and the stop timer is cancelled: the event has been processed.
CancelTimer ==
    /\ loop.pc = "stopTimer"
    /\ timer' = stopTimer(timer)
    /\ loop' = [loop EXCEPT !.pc = "read"]
    /\ focus' = [seen |-> TRUE, quiet |-> TRUE]
    /\ UNCHANGED <<walkVars, libVars, coordVars, killVars, ff, callbacks>>

\* Another window gains focus: CONT for it, and, unless on AC power, the
\* stop timer is started (time.AfterFunc) or stopped and reset.
FocusOther ==
    /\ loop.pc = "read"
    /\ loop.n < MaxEvents
    /\ \E pid \in Pids, onAC \in BOOLEAN :
         /\ signals' = signals \o kill(pid, FALSE, 0)
         /\ IF onAC THEN UNCHANGED <<timer, focus>>
            ELSE /\ timer' = "armed"
                 /\ focus' = [focus EXCEPT !.quiet = FALSE]
    /\ loop' = [loop EXCEPT !.n = @ + 1]
    /\ UNCHANGED <<walkVars, libVars, coordVars, procs, self, killArgs, ff, callbacks>>

\* The timer expires: its function is started in a goroutine of its own.
TimerExpires ==
    /\ loop.pc \in {"read", "stopTimer"}
    /\ timer = "armed"
    /\ timer' = "fired"
    /\ callbacks' = Append(callbacks, [read |-> FALSE, pid |-> 0])
    /\ UNCHANGED <<walkVars, libVars, coordVars, killVars, ff, loop, focus>>

\* The timer's function evaluates the arguments of kill(ff, true, *flagStopDepth).
CallbackReadsFF ==
    /\ loop.pc \in {"read", "stopTimer"}
    /\ \E i \in DOMAIN callbacks :
         /\ ~callbacks[i].read
         /\ callbacks' = [callbacks EXCEPT ![i] = [read |-> TRUE, pid |-> ff]]
    /\ UNCHANGED <<walkVars, libVars, coordVars, killVars, ff, timer, loop, focus>>

\* The timer's function calls kill and ends.
CallbackKills ==
    /\ loop.pc \in {"read", "stopTimer"}
    /\ \E i \in DOMAIN callbacks :
         /\ callbacks[i].read
         /\ signals' = signals \o kill(callbacks[i].pid, TRUE, flagStopDepth)
         /\ callbacks' = SubSeq(callbacks, 1, i - 1) \o SubSeq(callbacks, i + 1, Len(callbacks))
    /\ UNCHANGED <<walkVars, libVars, coordVars, procs, self, killArgs, ff, timer, loop, focus>>

NextDaemon ==
    \/ MainReturns
    \/ OtherChange
    \/ FocusTarget
    \/ CancelTimer
    \/ FocusOther
    \/ TimerExpires
    \/ CallbackReadsFF
    \/ CallbackKills

SpecDaemon == InitDaemon /\ [][NextDaemon]_vars

(* ============================== claims ================================= *)

\* A walker whose entry point has returned.
Returned(w) == pc[w] = "done"

\* The entity and the part of the i-th todo invocation of walker w.
CalledEntity(w, i) == ents[w][calls[w][i].ent]
CalledPart(w, i) == parts[calls[w][i].part]

\* A multipart entity that declares a non-empty boundary.
IsContainer(e) ==
    /\ ContentType(e.ctHeader).err = Nil
    /\ IsMultipart(ContentType(e.ctHeader).ct)
    /\ ContentType(e.ctHeader).boundary # ""

\* Path p comes before path q in depth-first pre-order (document order).
PathBefore(p, q) ==
    \/ Len(p) < Len(q) /\ SubSeq(q, 1, Len(p)) = p
    \/ \E i \in 1..Len(p) :
         /\ i <= Len(q)
         /\ SubSeq(p, 1, i - 1) = SubSeq(q, 1, i - 1)
         /\ p[i] < q[i]

\* C1 (as claimed): when todo returns ErrStopWalk, that invocation is the last
\* one and the walk returns nil.
C1_StopEndsSilently ==
    \A w \in Walkers : \A i \in DOMAIN calls[w] :
        calls[w][i].ret = ErrStopWalk =>
            /\ i = Len(calls[w])
            /\ Returned(w) => result[w] = Nil

\* C2 (as claimed): todo is invoked at most once for an entity, and exactly
\* once for every entity that is not a container once the walk has returned nil.
C2_OncePerLeaf ==
    \A w \in Walkers :
        /\ \A i, j \in DOMAIN calls[w] : calls[w][i].ent = calls[w][j].ent => i = j
        /\ (Returned(w) /\ result[w] = Nil) =>
              \A k \in DOMAIN ents[w] :
                  ~IsContainer(ents[w][k]) => \E i \in DOMAIN calls[w] : calls[w][i].ent = k

\* C3 (as claimed): no multipart container with a boundary is passed to todo.
C3_NoContainerCalled ==
    \A w \in Walkers : \A i \in DOMAIN calls[w] : ~IsContainer(CalledEntity(w, i))

\* C3 (amended): no multipart container with a boundary other than the entity
\* the walk starts from is passed to todo: below the root only entities that
\* are not such containers are.
C3_NoNestedContainerCalled ==
    \A w \in Walkers : \A i \in DOMAIN calls[w] :
        IsContainer(CalledEntity(w, i)) => CalledEntity(w, i).path = <<>>

\* C3 witness: a container below the root was passed over and a part inside
\* it was handed to todo.
C3_Witness ==
    \E w \in Walkers : \E i \in DOMAIN calls[w] : \E k \in DOMAIN ents[w] :
        /\ IsContainer(ents[w][k])
        /\ ents[w][k].path # <<>>
        /\ PathBefore(ents[w][k].path, CalledEntity(w, i).path)
        /\ Len(CalledEntity(w, i).path) > Len(ents[w][k].path)
        /\ SubSeq(CalledEntity(w, i).path, 1, Len(ents[w][k].path)) = ents[w][k].path

\* C4 (as claimed): when an invocation of todo returns an error other than
\* ErrStopWalk, the walk returns that error wrapped with the derived file name.
C4_ErrorWrapped ==
    \A w \in Walkers :
        (/\ Returned(w)
         /\ calls[w] # <<>>
         /\ calls[w][Len(calls[w])].ret \notin {Nil, ErrStopWalk}) =>
            /\ result[w].wrap = "todo"
            /\ result[w].fn = fn[w]
            /\ Unwrap(result[w]) = calls[w][Len(calls[w])].ret

\* The errors that arise before todo is reached for an entity: the parser's
\* forwarded error and the errors of part construction.
IsConstructionError(r) ==
    \/ r \in {ErrEncoding, ErrContentType}
    \/ r = [ErrIO EXCEPT !.wrap = "part"]

Issued == {i \in DOMAIN parts : parts[i].raw # <<>>}

\* C6 (as claimed): no two parts that received a sequence number carry the
\* same Seq, whatever the interleaving of the walks.
C6_SeqUnique ==
    \A i, j \in Issued : i # j => parts[i].Seq # parts[j].Seq

\* C7 (as claimed): every part handed to todo has a Seq greater than every
\* Seq issued before its own.
C7_SeqIncreasing ==
    \A w \in Walkers : \A i \in DOMAIN calls[w] : \A q \in Issued :
        RawLess(parts[q].raw, CalledPart(w, i).raw) => parts[q].Seq < CalledPart(w, i).Seq

\* An entity whose Content-Type header does not parse.
HasBadContentType(e) == ContentType(e.ctHeader).err # Nil

\* C8 (as claimed): an entity with an unparsable Content-Type gets no
\* invocation of todo and makes the walk return the parse error; when it is
\* the message's own header, todo is never invoked.
C8_BadContentTypeAborts ==
    \A w \in Walkers : \A k \in DOMAIN ents[w] :
        HasBadContentType(ents[w][k]) =>
            /\ \A i \in DOMAIN calls[w] : calls[w][i].ent # k
            /\ Returned(w) => result[w] = ErrContentType
            /\ k = 1 => calls[w] = <<>>

\* C8 (amended): an entity with an unparsable Content-Type ends the walk: it
\* is the last entity read, it gets no invocation of todo, and the walk
\* returns the parse error, unless the parser handed the entity over with an
\* error of its own, which is then returned instead; when it is the message's
\* own header, the walk returns the parse error and todo is never invoked.
C8_BadContentTypeAbortsUnlessForwarded ==
    \A w \in Walkers : \A k \in DOMAIN ents[w] :
        HasBadContentType(ents[w][k]) =>
            /\ k = Len(ents[w])
            /\ pc[w] \in {"visit", "done"}
            /\ \A i \in DOMAIN calls[w] : calls[w][i].ent # k
            /\ Returned(w) =>
                  result[w] = IF fwdErr[w] # Nil THEN fwdErr[w] ELSE ErrContentType
            /\ k = 1 => /\ calls[w] = <<>>
                        /\ Returned(w) => result[w] = ErrContentType

\* C8 witness: a walk that had already invoked todo was ended by the parse
\* error of a nested entity.
C8_Witness ==
    \E w \in Walkers :
        /\ Returned(w) /\ result[w] = ErrContentType
        /\ calls[w] # <<>>
        /\ HasBadContentType(ents[w][Len(ents[w])])

\* C9: once an entity's header carries X-HashOfFullMessage, no step changes
\* its value: WithEntity, applied again to the entity, keeps it.
C9_HashNeverOverwritten ==
    [][\A w \in Walkers : \A k \in DOMAIN ents[w] :
          HasHash(ents[w][k]) => ents'[w][k].hash = ents[w][k].hash]_vars

\* C9 witness: WithEntity was applied twice (for the root part, then for its
\* child in Walk) to an entity that came with a digest stamped upstream.
C9_Witness ==
    \E w \in Walkers :
        /\ rootPart[w] # 0
        /\ child[w] # 0
        /\ parts[child[w]].entity = <<w, 1>>
        /\ parts[rootPart[w]].Header.hash = UpstreamHash
        /\ parts[child[w]].Header.hash = UpstreamHash

\* C10 (as claimed): with dontDescend set, no part nested below the first
\* level of the message is passed to todo.
C10_NoDescent ==
    \A w \in Walkers : dontDescend[w] =>
        \A i \in DOMAIN calls[w] : Len(CalledEntity(w, i).path) <= 1

\* The entity a part was constructed for (parts that have one).
EntityOf(i) == ents[parts[i].entity[1]][parts[i].entity[2]]

\* C11: Walk never descends deeper than MaxWalkDepth: no part is constructed
\* for, and so the callback is never invoked on, an entity nested more than
\* MaxWalkDepth levels below the root of the walk.
C11_DepthBounded ==
    \A i \in DOMAIN parts :
        parts[i].entity # <<>> => Len(EntityOf(i).path) <= MaxWalkDepth

\* Walker w entered through NewMailPart and Walk, or WalkMessage with a nil
\* parent: the part the walk starts from has no parent.
StartsWithoutParent(w) == rootPart[w] # 0 /\ parts[rootPart[w]].Parent = 0

\* C12: every part passed to the callback has Level equal to its nesting
\* level: 1 for the entity the walk starts from, one more for each multipart
\* entity that encloses it.
C12_LevelIsNesting ==
    \A w \in Walkers : \A i \in DOMAIN calls[w] :
        StartsWithoutParent(w) =>
            CalledPart(w, i).Level = 1 + Len(CalledEntity(w, i).path)

\* C13 as stated: a part with no parent has depth 0, a part with a parent
\* has its parent's depth plus one.
C13_DepthFromParent ==
    \A i \in DOMAIN parts :
        parts[i].entity # <<>> =>
            IF parts[i].Parent = 0 THEN parts[i].Level = 0
            ELSE parts[i].Level = parts[parts[i].Parent].Level + 1

\* C13, amended: a part with no parent has depth 0 when NewMailPart built it
\* (no sequence number issued) and depth 1 when WalkMessage built it for a nil
\* parent; a part with a parent has its parent's depth plus one.
C13_DepthFromParentOrEntry ==
    \A i \in DOMAIN parts :
        parts[i].entity # <<>> =>
            IF parts[i].Parent = 0
            THEN parts[i].Level = (IF parts[i].raw = <<>> THEN 0 ELSE 1)
            ELSE parts[i].Level = parts[parts[i].Parent].Level + 1

\* WalkMessage built a part for a nil parent and Walk spawned a child from it.
C13_Witness ==
    \E i, j \in DOMAIN parts :
        /\ parts[i].entity # <<>> /\ parts[i].Parent = 0 /\ parts[i].Level = 1
        /\ parts[j].entity # <<>> /\ parts[j].Parent = i /\ parts[j].Level = 2

\* The X-FileName field the claim expects on a part built for entity e.
ExpectedFileName(mp, e) ==
    safeFn(IF e.disp # NoName THEN e.disp
           ELSE Itoa(mp.Level) \o <<".">> \o Itoa(mp.Seq)
                \o (IF ExtensionsByType(mp.ContentType) = << >>
                    THEN <<".", "d", "a", "t">>
                    ELSE ExtensionsByType(mp.ContentType)[1]),
           TRUE)

IsNoBoundaryMultipart(e) ==
    /\ e.path # <<>>
    /\ ContentType(e.ctHeader).err = Nil
    /\ IsMultipart(ContentType(e.ctHeader).ct)
    /\ ContentType(e.ctHeader).boundary = ""

\* C15: a non-root multipart entity without a boundary is treated as a leaf:
\* once the walk function has dealt with it, a part has been constructed for
\* it and the callback has been invoked on that part, unless the walk ended
\* on it with the error forwarded with the entity or with the error of
\* draining its body.
C15_NoBoundaryIsLeaf ==
    \A w \in Walkers : \A k \in DOMAIN ents[w] :
        IsNoBoundaryMultipart(ents[w][k]) =>
            \/ k = cur[w] /\ pc[w] = "visit"
            \/ k = cur[w] /\ pc[w] = "todo1" /\ parts[child[w]].entity = <<w, k>>
            \/ \E i \in DOMAIN calls[w] :
                   calls[w][i].ent = k /\ CalledPart(w, i).entity = <<w, k>>
            \/ /\ k = cur[w] /\ Returned(w)
               /\ result[w] \in {ErrEncoding, [ErrIO EXCEPT !.wrap = "part"]}

\* The callback was invoked on a non-root multipart entity without boundary.
C15_Witness ==
    \E w \in Walkers : \E i \in DOMAIN calls[w] :
        /\ IsNoBoundaryMultipart(CalledEntity(w, i))
        /\ CalledPart(w, i).ContentType = "multipart/mixed"
        /\ CalledPart(w, i).boundary = ""

\* C16: for every name, safeFn(name, true) returns, and what it returns
\* holds no "/", no "\" and no "%".
C16_SafeFnClean ==
    safeName.called =>
        \A i \in DOMAIN safeName.out : safeName.out[i] \notin {"/", "\\", "%"}

\* safeFn returned for a name that holds a slash, a backslash and a percent sign.
C16_Witness ==
    /\ safeName.called
    /\ {"/", "\\", "%"} \subseteq {rawName[i] : i \in DOMAIN rawName}
    /\ Len(safeName.out) > Len(rawName)

\* The bytes drained from the entity body by WithEntity.
DrainedBytes == SubSeq(src.body, src.start + 1, Len(src.body))

\* C17: every reader returned by GetBody spans the whole body and starts at
\* offset 0, whatever was read from entity.Body or from other such readers:
\* its cursor is at the number of bytes read through it, and those bytes are
\* the body from its first byte on.
C17_ViewsIndependent ==
    \A v \in DOMAIN views :
        LET rd == readers[views[v].reader]
        IN /\ rd.base = 0
           /\ Size(rd) = Len(DrainedBytes)
           /\ rd.off = Len(views[v].got)
           /\ views[v].got = SubSeq(DrainedBytes, 1, Len(views[v].got))

\* Two readers from GetBody over a body of two different bytes or more: one
\* has been read from, the other not yet, and entity.Body has been read from too.
C17_Witness ==
    /\ Len(views) = 2
    /\ views[1].got # <<>>
    /\ views[2].got = <<>>
    /\ readers[3].off > 0
    /\ Len(DrainedBytes) >= 2
    /\ DrainedBytes[1] # DrainedBytes[2]

\* C18: the digest WithEntity stamps when the field was absent is HashBytes
\* of exactly the bytes drained from the entity body, however the reads
\* were cut.
C18_DigestOfDrainedBytes ==
    (src.state = "done" /\ src.hash = NoHash) => stamped = HashBytes(DrainedBytes)

\* WithEntity stamped the digest of a body drained in more than one read,
\* part of which had been read before.
C18_Witness ==
    /\ src.state = "done"
    /\ src.hash = NoHash
    /\ stamped # NoHash
    /\ src.start > 0
    /\ Len(DrainedBytes) >= 2
    /\ readers[1].data = DrainedBytes

\* The characters of the URL-safe base64 alphabet.
URLChars == {URLAlphabet[i] : i \in DOMAIN URLAlphabet}

\* C19 as stated: the stamped digest is the 224-bit digest rendered with the
\* URL-safe alphabet and without padding characters.
C19_DigestUnpadded ==
    (src.state = "done" /\ src.hash = NoHash) =>
        \A i \in DOMAIN stamped : stamped[i] \in URLChars

\* C19, amended: the stamped digest is the 224-bit (Size224 bytes) digest
\* rendered with the URL-safe alphabet and padded: 40 characters, the first
\* 38 of the alphabet, the last two "=".
C19_DigestPadded ==
    (src.state = "done" /\ src.hash = NoHash) =>
        /\ Len(stamped) = 4 * ((Size224 + 2) \div 3)
        /\ \A i \in 1..(Len(stamped) - 2) : stamped[i] \in URLChars
        /\ stamped[Len(stamped) - 1] = "="
        /\ stamped[Len(stamped)] = "="

\* WithEntity stamped the digest of a non-empty body.
C19_Witness ==
    /\ src.state = "done"
    /\ src.hash = NoHash
    /\ Len(stamped) = 40
    /\ DrainedBytes # <<>>

\* What a field contributes, and the fields as <<canonical key, value>> pairs.
Contribution(f) == IF Text(f).err = Nil THEN Text(f).s ELSE Raw(f)
Pairs(fs) == [i \in DOMAIN fs |-> <<CanonicalMIMEHeaderKey(fs[i].key), Contribution(fs[i])>>]

\* The pairs of the map m, its keys taken in the order ks.
RECURSIVE Flatten(_, _)
Flatten(m, ks) ==
    IF ks = <<>> THEN <<>>
    ELSE [i \in DOMAIN m[Head(ks)] |-> <<Head(ks), m[Head(ks)][i]>>] \o Flatten(m, Tail(ks))

\* The orders in which a set of keys can be gone through.
Orders(S) == {ks \in [1..Cardinality(S) -> S] : \A k \in S : \E i \in DOMAIN ks : ks[i] = k}

RECURSIVE ValuesOf(_, _)
ValuesOf(fs, k) ==
    IF fs = <<>> THEN <<>>
    ELSE (IF CanonicalMIMEHeaderKey(Head(fs).key) = k THEN <<Contribution(Head(fs))>> ELSE <<>>)
         \o ValuesOf(Tail(fs), k)

C21_RootContainerCalledFirst ==
    \A w \in Walkers :
        (ents[w] # <<>> /\ IsContainer(ents[w][1])
         /\ (Len(ents[w]) >= 2 \/ (Returned(w) /\ result[w] = Nil))) =>
            /\ calls[w] # <<>>
            /\ calls[w][1].ent = 1
            /\ CalledPart(w, 1).entity = <<w, 1>>
            /\ CalledPart(w, 1).boundary # ""

\* The callback got the multipart root and then a part below it.
C21_Witness ==
    \E w \in Walkers : \E i \in DOMAIN calls[w] :
        /\ IsContainer(ents[w][1])
        /\ calls[w][1].ent = 1
        /\ CalledEntity(w, i).path # <<>>

\* C22: the Parent of every part passed to the callback is the part of the
\* entity that immediately encloses the part's entity in the MIME tree.
C22_ParentIsEnclosing ==
    \A w \in Walkers : \A i \in DOMAIN calls[w] :
        LET p == CalledEntity(w, i).path
            parent == CalledPart(w, i).Parent
        IN p # <<>> =>
            /\ parent # 0
            /\ parts[parent].entity # <<>>
            /\ parts[parent].entity[1] = w
            /\ EntityOf(parent).path = SubSeq(p, 1, Len(p) - 1)

\* How many levels process q is below process p in the process tree; -1
\* when q is not p and not a descendant of p.
RECURSIVE LevelsBelow(_, _)
LevelsBelow(q, p) ==
    IF q = p THEN 0
    ELSE IF q \notin Pids THEN -1
    ELSE LET d == LevelsBelow(procs[q], p) IN IF d < 0 THEN -1 ELSE d + 1

\* C23: kill(pid, stop, depth) signals only pid and its descendants at most
\* depth levels below it, with the signal it was asked for.
C23_KillWithinDepth ==
    killArgs.done =>
        \A i \in DOMAIN signals :
            /\ LevelsBelow(signals[i].pid, killArgs.pid) \in 0..killArgs.depth
            /\ signals[i].sig = (IF killArgs.stop THEN SIGSTOP ELSE SIGCONT)

\* kill stopped, with depth 1, a process that has a child and a grandchild:
\* the child was signalled, the grandchild was not.
C23_Witness ==
    /\ killArgs.done /\ killArgs.stop /\ killArgs.depth = 1
    /\ \E q, r \in Pids :
          /\ procs[q] = killArgs.pid /\ procs[r] = q
          /\ \E i \in DOMAIN signals : signals[i].pid = q
          /\ \A i \in DOMAIN signals : signals[i].pid # r

\* C25: kill and ckill never signal pid 0 or the daemon's own process.
C25_NeverSelfOrZero ==
    \A i \in DOMAIN signals : signals[i].pid \notin {0, self}

\* The signals sent by the step, and whether one of them is a STOP.
NewSignals == SubSeq(signals', Len(signals) + 1, Len(signals'))
StopSent == \E i \in DOMAIN NewSignals : NewSignals[i].sig = SIGSTOP

\* C24: once a focus event for the target program has been processed (CONT
\* sent, stop timer cancelled), no STOP is sent until a focus event for
\* another window arms the timer again, however the event loop and the
\* timer's function interleave.
C24_NoStopWhileFocused ==
    [][focus.quiet => ~StopSent]_vars

\* C26: no STOP is sent before the first focus event for the target program
\* has been processed; every STOP is sent by the timer's function, and goes
\* to the target pid focused last or to a descendant of it within the stop
\* depth.
C26_StopOnlyLastTarget ==
    [][StopSent =>
         /\ focus.seen
         /\ Len(callbacks') < Len(callbacks)
         /\ \A i \in DOMAIN NewSignals :
               LevelsBelow(NewSignals[i].pid, ff) \in 0..flagStopDepth]_vars

(* ----------------------------- coord.Get ------------------------------- *)

\* The HTTP attempts one call of Get is followed through.
MaxAttempts == 2
\* The results of one geocoding response.
MaxResults == 2

\* A rate.Limit is a float64, here the ratio num/den; den = 0 is +Inf.
Ratio(n, d) ==
    IF d = 0 THEN [num |-> 1, den |-> 0]
    ELSE IF n = 0 THEN [num |-> 0, den |-> 1] ELSE [num |-> n, den |-> d]
Inf == Ratio(1, 0)
Less(a, b) == a.num * b.den < b.num * a.den

\* gmapsRateLimit.Limit() * 1.1
Raise(l) == Ratio(l.num * 11, l.den * 10)

\* gmapsRateLimit.Limit() / 2
Halve(l) == Ratio(l.num, l.den * 2)

\* The limits the limiter starts a call with: 1 (NewLimiter(1, 1)), what one
\* earlier call made of it, and the two values the float64 saturates at:
\* +Inf (1.1^n overflows after some 7,450 raises) and 0 (some 1,075 halvings).
Limits == {Ratio(1, 1), Raise(Ratio(1, 1)), Halve(Ratio(1, 1)), Inf, Ratio(0, 1)}

ErrNotFound == Err("not found")
ErrTooManyResults == Err("too many results")
Canceled == Err("context canceled")
DeadlineExceeded == Err("context deadline exceeded")
ErrWouldExceed == Err("rate: Wait(n=1) would exceed context deadline")

\* fmt.Errorf("%s: %w", aURL, err) and fmt.Errorf("decode: %w", err)
Errorf(prefix, msg) == [wrap |-> prefix, fn |-> <<>>, msg |-> msg]

\* A context: live, cancelled, or past its deadline if it has one.
Contexts ==
    {[state |-> "live", deadline |-> FALSE], [state |-> "live", deadline |-> TRUE],
     [state |-> "canceled", deadline |-> FALSE], [state |-> "canceled", deadline |-> TRUE],
     [state |-> "expired", deadline |-> TRUE]}

\* A context that is never seen done.
DoneNever(c) == FALSE

\* <-ctx.Done() is ready.
Done(c) == c.state # "live"

\* ctx.Err()
CtxErr(c) ==
    CASE c.state = "canceled" -> Canceled
      [] c.state = "expired" -> DeadlineExceeded
      [] OTHER -> Nil

ZeroLocation == [Address |-> <<>>, Lat |-> 0, Lng |-> 0]
\* mapsResult values: one that is all zero and one that is not.
MapsResults ==
    {[FormattedAddress |-> <<>>, Lat |-> 0, Lng |-> 0],
     [FormattedAddress |-> <<"A">>, Lat |-> 47, Lng |-> 19]}
ZeroData == [Status |-> "", Results |-> <<>>]
StatusTexts == {"OK", "ZERO_RESULTS", "OVER_QUERY_LIMIT", "REQUEST_DENIED"}

\* A response body: the members of the JSON object that mapsResponse has a
\* field for (set) with their values, and what is wrong with the text: nothing,
\* a value of the wrong type somewhere, or the syntax.
JSONBodies ==
    {[set |-> {}, status |-> "", results |-> <<>>, fault |-> "syntax"]}
    \cup
    {[set |-> m, status |-> st, results |-> rs, fault |-> f] :
        m \in SUBSET {"status", "results"},
        st \in StatusTexts \cup {""},
        rs \in UNION {[1..k -> MapsResults] : k \in 0..MaxResults},
        f \in {"none", "type"}}

\* What http.DefaultClient.Do gives: an error, or a response with a status
\* code, and a body if it is read. The codes are the two on either side of
\* the test resp.StatusCode > 299.
Replies ==
    {[code |-> 0, cause |-> c, body |-> <<>>] : c \in {"dial tcp: timeout", "EOF"}}
    \cup {[code |-> c, cause |-> "", body |-> <<>>] : c \in {300}}
    \cup {[code |-> c, cause |-> "", body |-> b] : c \in {299},
            b \in {j \in JSONBodies :
                     /\ "status" \notin j.set => j.status = ""
                     /\ "results" \notin j.set => j.results = <<>>}}

\* resp.Status
StatusLine(code) == IF code = 299 THEN "299 " ELSE "300 Multiple Choices"

\* json.NewDecoder(resp.Body).Decode(&data): the text is scanned first, and a
\* syntax error leaves data alone; then every member with a field is stored,
\* a value of the wrong type being skipped and reported at the end. Fields
\* without a member keep what they held.
Decode(d, j) ==
    IF j.fault = "syntax" THEN [data |-> d, err |-> Err("invalid character")]
    ELSE [data |-> [Status |-> IF "status" \in j.set THEN j.status ELSE d.Status,
                    Results |-> IF "results" \in j.set THEN j.results ELSE d.Results],
          err |-> IF j.fault = "type" THEN Err("json: cannot unmarshal") ELSE Nil]

\* The function literal of one attempt, up to the decoding: data and error.
attempt(d, r) ==
    IF r.code = 0 THEN [data |-> d, err |-> Errorf("aURL", r.cause)]
    ELSE IF r.code > 299 THEN [data |-> d, err |-> Errorf("aURL", StatusLine(r.code))]
    ELSE LET dec == Decode(d, r.body)
         IN  [data |-> dec.data,
              err |-> IF dec.err = Nil THEN Nil ELSE Errorf("decode", dec.err.msg)]

\* A firstErr that holds the error of the latest attempt.
keepLatest(first, e) == e

\* if firstErr == nil { firstErr = err }
keepFirst(first, e) == IF first = Nil THEN e ELSE first

\* The limit after a decoded response.
SetLimit(l, d) == IF d.Status # "OVER_QUERY_LIMIT" THEN Raise(l) ELSE Halve(l)

\* The switches that ignore the status.
outcomeAnyStatus(d) ==
    IF Len(d.Results) = 0 THEN [loc |-> ZeroLocation, err |-> ErrNotFound]
    ELSE IF Len(d.Results) = 1
      THEN [loc |-> [Address |-> d.Results[1].FormattedAddress,
                     Lat |-> d.Results[1].Lat, Lng |-> d.Results[1].Lng],
            err |-> Nil]
    ELSE [loc |-> ZeroLocation, err |-> ErrTooManyResults]

\* The two switches after the loop: what Get returns for data.
outcome(d) ==
    IF d.Status = "ZERO_RESULTS" THEN [loc |-> ZeroLocation, err |-> ErrNotFound]
    ELSE IF d.Status # "OK" THEN [loc |-> ZeroLocation, err |-> Err(d.Status)]
    ELSE IF Len(d.Results) = 0 THEN [loc |-> ZeroLocation, err |-> ErrNotFound]
    ELSE IF Len(d.Results) = 1
      THEN [loc |-> [Address |-> d.Results[1].FormattedAddress,
                     Lat |-> d.Results[1].Lat, Lng |-> d.Results[1].Lng],
            err |-> Nil]
    ELSE [loc |-> ZeroLocation, err |-> ErrTooManyResults]

\* gmapsRateLimit.Wait(ctx): the error and the tokens left. A context that is
\* done fails it at once; with a token, or with no limit, it succeeds; without
\* one it waits for the next token, which a limit of 0 never brings, and it
\* refuses to wait beyond the deadline of the context.
WaitOutcomes(lim, c) ==
    IF Done(c) THEN {[err |-> CtxErr(c), tokens |-> lim.tokens]}
    ELSE IF lim.limit = Inf THEN {[err |-> Nil, tokens |-> lim.tokens]}
    ELSE IF lim.tokens > 0 THEN {[err |-> Nil, tokens |-> lim.tokens - 1]}
    ELSE (IF Less(Ratio(0, 1), lim.limit) THEN {[err |-> Nil, tokens |-> 0]} ELSE {})
         \cup (IF c.deadline THEN {[err |-> ErrWouldExceed, tokens |-> 0]} ELSE {})

\* The HTTP attempts so far.
Attempts == SelectSeq(wire, LAMBDA e : e.op = "Do")

\* Get is called: with any context, the limiter as earlier calls left it.
InitGet ==
    /\ NoWalk
    /\ LibIdle
    /\ KillIdle
    /\ DaemonIdle
    /\ ctx \in Contexts
    /\ gmapsRateLimit \in [limit : Limits, tokens : 0..1]
    /\ get = [pc |-> "start", firstErr |-> Nil, data |-> ZeroData, ret |-> NotCalled]
    /\ wire = <<>>

\* return loc, err
ReturnGet(l, e) == [get EXCEPT !.pc = "done", !.ret = Returns([loc |-> l, err |-> e])]

\* The caller cancels the context, or its deadline passes.
CtxDone ==
    /\ ctx.state = "live"
    /\ get.pc # "done"
    /\ \/ ctx' = [ctx EXCEPT !.state = "canceled"]
       \/ ctx.deadline /\ ctx' = [ctx EXCEPT !.state = "expired"]
    /\ UNCHANGED <<walkVars, libVars, killVars, daemonVars, gmapsRateLimit, get, wire>>

\* The select on ctx.Done() that Get starts with.
GetEnters ==
    /\ get.pc = "start"
    /\ get' = IF Done(ctx) THEN ReturnGet(ZeroLocation, CtxErr(ctx))
              ELSE [get EXCEPT !.pc = "wait"]
    /\ UNCHANGED <<walkVars, libVars, killVars, daemonVars, ctx, gmapsRateLimit, wire>>

\* gmapsRateLimit.Wait(ctx) at the head of every iteration.
Wait ==
    /\ get.pc = "wait"
    /\ \E o \in WaitOutcomes(gmapsRateLimit, ctx) :
         /\ gmapsRateLimit' = [gmapsRateLimit EXCEPT !.tokens = o.tokens]
         /\ wire' = Append(wire, [op |-> "Wait", err |-> o.err])
         /\ get' = IF o.err = Nil THEN [get EXCEPT !.pc = "do"]
                   ELSE ReturnGet(ZeroLocation, o.err)
    /\ UNCHANGED <<walkVars, libVars, killVars, daemonVars, ctx>>

\* One attempt: the request (http.NewRequest cannot fail on a URL whose
\* variable parts went through url.QueryEscape), the response, the decoding
\* and the new limit; then break, or firstErr. A context that is done fails
\* the request.
Do ==
    /\ get.pc = "do"
    /\ \E r \in Replies :
         /\ Done(ctx) => r.code = 0
         /\ LET a == attempt(get.data, r)
            IN  /\ wire' = Append(wire, [op |-> "Do", err |-> a.err])
                /\ IF a.err = Nil
                     THEN /\ gmapsRateLimit' =
                               [gmapsRateLimit EXCEPT !.limit = SetLimit(@, a.data)]
                          /\ get' = [get EXCEPT !.pc = "switch", !.data = a.data]
                     ELSE /\ get' = [get EXCEPT !.pc = "next", !.data = a.data,
                                       !.firstErr = keepFirst(@, a.err)]
                          /\ UNCHANGED gmapsRateLimit
    /\ UNCHANGED <<walkVars, libVars, killVars, daemonVars, ctx>>

\* iter.Next(ctx.Done()): false when the context is done or the 30 seconds of
\* retryStrategy are over, which an attempt of any length can bring about.
IterNext ==
    /\ get.pc = "next"
    /\ \/ get' = ReturnGet(ZeroLocation, get.firstErr)
       \/ /\ ~Done(ctx)
          /\ Len(Attempts) < MaxAttempts
          /\ get' = [get EXCEPT !.pc = "wait"]
    /\ UNCHANGED <<walkVars, libVars, killVars, daemonVars, ctx, gmapsRateLimit, wire>>

\* After the loop: the switch on data.Status and the one on len(data.Results).
GetReturns ==
    /\ get.pc = "switch"
    /\ get' = ReturnGet(outcome(get.data).loc, outcome(get.data).err)
    /\ UNCHANGED <<walkVars, libVars, killVars, daemonVars, ctx, gmapsRateLimit, wire>>

NextGet ==
    \/ CtxDone
    \/ GetEnters
    \/ Wait
    \/ Do
    \/ IterNext
    \/ GetReturns

SpecGet == InitGet /\ [][NextGet]_vars


(* ------------------------ coord.Get: properties ------------------------ *)

\* Get has returned out.
GetReturned == get.pc = "done"
LastOnWire == wire[Len(wire)]
\* The attempts that failed, and whether the latest attempt was decoded.
FailedAttempts == SelectSeq(Attempts, LAMBDA e : e.err # Nil)
Decoded == wire # <<>> /\ LastOnWire.op = "Do" /\ LastOnWire.err = Nil

\* C27: Get called with a context that is cancelled or past its deadline
\* returns the zero Location and ctx.Err(), and neither takes a token from the
\* limiter nor sends a request; every HTTP attempt comes right after a Wait
\* that succeeded; and a Wait that fails ends Get with the error of the Wait.
C27_WaitBeforeEveryAttempt ==
    [][/\ get.pc = "start" /\ ctx.state # "live" =>
            /\ get'.ret = Returns([loc |-> ZeroLocation, err |-> CtxErr(ctx)])
            /\ get'.pc = "done"
            /\ wire' = <<>>
            /\ gmapsRateLimit' = gmapsRateLimit
       /\ \A i \in DOMAIN wire' :
            wire'[i].op = "Do" =>
                i > 1 /\ wire'[i - 1].op = "Wait" /\ wire'[i - 1].err = Nil
       /\ \A i \in DOMAIN wire' :
            wire'[i].op = "Wait" /\ wire'[i].err # Nil =>
                /\ i = Len(wire')
                /\ get'.pc = "done"
                /\ get'.ret = Returns([loc |-> ZeroLocation, err |-> wire'[i].err])]_vars

\* Get was called with a cancelled context and has returned context.Canceled
\* with nothing on the wire and the token still there.
C27_Witness ==
    /\ GetReturned
    /\ wire = <<>>
    /\ gmapsRateLimit.tokens = 1
    /\ get.ret = Returns([loc |-> ZeroLocation, err |-> Canceled])

\* C28 as stated: whenever Get returns after attempts none of which was
\* decoded, it returns the error of the first of them; and what it returns
\* after a decoded attempt is the error of none of the failed ones.
C28_FirstErrorWhenGivingUp ==
    GetReturned =>
        /\ FailedAttempts # <<>> /\ ~Decoded => get.ret.out.err = FailedAttempts[1].err
        /\ Decoded => \A i \in DOMAIN FailedAttempts : get.ret.out.err # FailedAttempts[i].err

\* C28, amended: when iter.Next reports that there is no further iteration,
\* Get returns the zero Location and the error of the first failed attempt;
\* when it is a Wait that fails after failed attempts, Get returns the error
\* of the Wait; and what it returns after a decoded attempt is the error of
\* none of the failed ones.
C28_FirstErrorWhenNextEnds ==
    GetReturned =>
        /\ wire # <<>> /\ LastOnWire.op = "Do" /\ LastOnWire.err # Nil =>
              get.ret = Returns([loc |-> ZeroLocation, err |-> FailedAttempts[1].err])
        /\ wire # <<>> /\ LastOnWire.op = "Wait" =>
              get.ret = Returns([loc |-> ZeroLocation, err |-> LastOnWire.err])
        /\ Decoded => \A i \in DOMAIN FailedAttempts : get.ret.out.err # FailedAttempts[i].err

\* Two attempts failed with different errors, iter.Next ended the loop, and
\* Get has returned the error of the first one.
C28_Witness ==
    /\ GetReturned
    /\ Len(FailedAttempts) = 2
    /\ FailedAttempts[1].err # FailedAttempts[2].err
    /\ LastOnWire.op = "Do"
    /\ get.ret.out.err = FailedAttempts[1].err

\* C29: only an attempt that failed is followed by another one; an attempt
\* decoded with the status OVER_QUERY_LIMIT lowers the limit of the limiter,
\* is the last attempt, and Get returns an error with that status.
C29_OverQueryLimitNotRetried ==
    [][/\ \A i \in DOMAIN wire' :
            wire'[i].op = "Do" /\ wire'[i].err = Nil => i = Len(wire')
       /\ get.pc = "do" /\ get'.pc = "switch" /\ get'.data.Status = "OVER_QUERY_LIMIT" =>
            Less(gmapsRateLimit'.limit, gmapsRateLimit.limit)
       /\ get.pc = "switch" /\ get'.pc = "done" /\ get.data.Status = "OVER_QUERY_LIMIT" =>
            get'.ret = Returns([loc |-> ZeroLocation, err |-> Err("OVER_QUERY_LIMIT")])]_vars

\* C30 as stated: after a decoded attempt, a nil error with a Location that
\* is not zero only for the status OK with one result; ErrNotFound for the
\* status ZERO_RESULTS and for no result; ErrTooManyResults for more than one
\* result; an error with the status for every other status; and the zero
\* Location with every error.
C30_OutcomeByStatusOrResults ==
    GetReturned =>
        /\ get.ret.out.err # Nil => get.ret.out.loc = ZeroLocation
        /\ Decoded =>
            /\ get.ret.out.err = Nil /\ get.ret.out.loc # ZeroLocation =>
                  get.data.Status = "OK" /\ Len(get.data.Results) = 1
            /\ get.data.Status = "ZERO_RESULTS" \/ Len(get.data.Results) = 0 =>
                  get.ret.out.err = ErrNotFound
            /\ Len(get.data.Results) > 1 => get.ret.out.err = ErrTooManyResults
            /\ get.data.Status \notin {"OK", "ZERO_RESULTS"} =>
                  get.ret.out.err = Err(get.data.Status)

\* C30, amended: the status is looked at first. Every error comes with the
\* zero Location; after a decoded attempt the error is nil only for the
\* status OK with one result, ErrNotFound for ZERO_RESULTS, an error with the
\* status for every status other than OK, and under the status OK
\* ErrNotFound for no result and ErrTooManyResults for more than one.
C30_OutcomeByStatusThenResults ==
    GetReturned =>
        /\ get.ret.out.err # Nil => get.ret.out.loc = ZeroLocation
        /\ get.ret.out.err = Nil =>
              Decoded /\ get.data.Status = "OK" /\ Len(get.data.Results) = 1
        /\ Decoded =>
            /\ get.data.Status = "ZERO_RESULTS" => get.ret.out.err = ErrNotFound
            /\ get.data.Status \notin {"OK", "ZERO_RESULTS"} =>
                  get.ret.out.err = Err(get.data.Status)
            /\ get.data.Status = "OK" /\ Len(get.data.Results) = 0 =>
                  get.ret.out.err = ErrNotFound
            /\ get.data.Status = "OK" /\ Len(get.data.Results) > 1 =>
                  get.ret.out.err = ErrTooManyResults

\* Get has returned a Location that is not zero, with a nil error, for a
\* response with the status OK and one result.
C30_Witness ==
    /\ GetReturned
    /\ Decoded
    /\ get.ret.out.err = Nil
    /\ get.ret.out.loc # ZeroLocation
    /\ get.data.Status = "OK"
    /\ Len(get.data.Results) = 1

====
